---- MODULE Spec2Model ----
(***************************************************************************)
(* A model of src/src/ffmpeg.ts (class FFmpegUtil): device discovery,      *)
(* synthesis of the encoder's argument list, the recording launch and the  *)
(* two-stage GIF transcode.                                                *)
(*                                                                         *)
(* JavaScript values.  A JS string is modelled by itself.  A JS value that *)
(* is not a string is modelled by a reserved string: Num(n) for a number,  *)
(* False for false, Undefined for undefined, so that the number 0 and the  *)
(* string "0" stay different values and truthiness can be computed.        *)
(* A JS object is modelled as its property list: the sequence of           *)
(* <<key, value>> pairs in insertion order (the order of Object.keys).     *)
(***************************************************************************)
EXTENDS Integers, Sequences, FiniteSets, TLC

VARIABLES
    \* launchProcess / getInputDevices / getMacInputDevices
    recordingArgs,  \* FFmpegUtil.recordingArgs, the static default tables
    platform,       \* os.platform()
    opts,           \* the RecordingOptions of the launchProcess call
    pc,             \* position of the launchProcess call
    input,          \* what getInputDevices resolved
    resolution,     \* w, h of getInputDevices (darwin), set by the stdout listener
    text,           \* stderr lines collected by getMacInputDevices
    listExit,       \* how the device-listing process exited
    args,           \* token list handed to Util.processToPromise for the recording
    alive,          \* external processes of the call that are running
    spawnLog,       \* every process the call spawned, in order
    error,          \* the error the call failed with
    \* generateGIF, one entry per concurrent call
    gpc,            \* position of each generateGIF call
    ffmpeg,         \* what Config.getFFmpegBinary() resolved to, per call
    stage1,         \* state of each call's palette-generation process
    stage2,         \* state of each call's palette-use process
    gifSpawns,      \* every process the generateGIF calls spawned, in order
    paletteFile,    \* content of <tmpdir>/palette-gen.png: the call that wrote it
    paletteRead,    \* the palette content each call's stage 2 read
    result,         \* what each generateGIF call returned
    \* the output path of generateGIF
    file,           \* opts.file, a sequence of characters
    final,          \* the derived output path
    ppc             \* position of the path derivation

launchVars == <<recordingArgs, platform, opts, pc, input, resolution, text,
                listExit, args, alive, spawnLog, error>>
gifVars == <<gpc, ffmpeg, stage1, stage2, gifSpawns, paletteFile, paletteRead, result>>
pathVars == <<file, final, ppc>>
vars == <<launchVars, gifVars, pathVars>>

----------------------------------------------------------------------------
(* Bounds *)

\* how many keys the flag-override object (opts.flags) sets
MaxOverrides == 2
\* how many stderr lines the device listing delivers
MaxLines == 3
\* how many generateGIF calls run concurrently
NumCalls == 2
\* how many pieces the recording path holds before its .mp4 suffix
MaxStemPieces == 3

----------------------------------------------------------------------------
(* JavaScript values *)

Undefined == "<undefined>"
False == "<false>"
Num(n) == "<number " \o ToString(n) \o ">"

\* JS truthiness of a modelled value (as tested by || and if)
Truthy(v) == v \notin {Undefined, False, Num(0), ""}

\* obj[k] of a property list: undefined when the key is absent
Lookup(obj, k) ==
    IF \E i \in 1..Len(obj) : obj[i][1] = k
    THEN obj[CHOOSE i \in 1..Len(obj) : obj[i][1] = k][2]
    ELSE Undefined

\* Object.keys(obj)
Keys(obj) == [i \in 1..Len(obj) |-> obj[i][1]]

----------------------------------------------------------------------------
(* FFmpegUtil.recordingArgs, get, getAll *)

RecordingArgsTable ==
    [common |-> << <<"threads", Num(4)>>, <<"capture_cursor", Num(1)>> >>,
     audio  |-> << <<"b:a", "384k">>, <<"c:a", "aac">>, <<"ac", Num(1)>>, <<"vbr", Num(3)>> >>,
     video  |-> << <<"preset", "ultrafast">>, <<"crf", Num(22)>>, <<"c:v", "libx264">> >>]

\* mutant: the override wins whenever it is present (?? instead of ||)
Get_PresentOverrideWins(src, key, target, customKeyOverride) ==
    LET k == IF Truthy(customKeyOverride) THEN customKeyOverride ELSE key
    IN  << "-" \o key,
           IF Lookup(src, k) # Undefined THEN Lookup(src, k) ELSE Lookup(target, key) >>

\* mutant: the flag is named after the substituted key
Get_FlagFromOverrideKey(src, key, target, customKeyOverride) ==
    LET k == IF Truthy(customKeyOverride) THEN customKeyOverride ELSE key
    IN  << "-" \o k,
           IF Truthy(Lookup(src, k)) THEN Lookup(src, k) ELSE Lookup(target, key) >>

\* get(src, key, target, customKeyOverride)
Get(src, key, target, customKeyOverride) ==
    LET k == IF Truthy(customKeyOverride) THEN customKeyOverride ELSE key
    IN  << "-" \o key,
           IF Truthy(Lookup(src, k)) THEN Lookup(src, k) ELSE Lookup(target, key) >>

RECURSIVE GetAllFrom(_, _, _, _, _)
GetAllFrom(src, target, keys, override, i) ==
    IF i > Len(keys) THEN << >>
    ELSE Get(src, keys[i], target,
             IF override # Undefined THEN override \o keys[i] ELSE keys[i])
         \o GetAllFrom(src, target, keys, override, i + 1)

\* getAll(src, target, keys, override): override is undefined or the prefix p
\* of the key substitution x => p + x
GetAll(src, target, keys, override) == GetAllFrom(src, target, keys, override, 1)

----------------------------------------------------------------------------
(* launchProcess: the argument list, lines 108-150 *)

NoObject == << >>

\* lines 117-123
BaseArgs(o, in, tables) ==
    GetAll(o.flags, tables.common, Keys(tables.common), Undefined)
    \o << "-r", ToString(o.fps) >>
    \o << "-video_size", ToString(o.bounds.width) \o "x" \o ToString(o.bounds.height) >>
    \o GetAll(o.flags, in.video, <<"f">>, Undefined)
    \o GetAll(o.flags, in.video, <<"i">>, Undefined)

\* mutant: the duration pair is appended instead of put in front
DurationArgs_Push(o, a) ==
    IF o.duration # 0 THEN a \o << "-t", ToString(o.duration) >> ELSE a

\* lines 125-127: args.unshift('-t', duration)
DurationArgs(o, a) ==
    IF o.duration # 0 THEN << "-t", ToString(o.duration) >> \o a ELSE a

\* mutant: the audio group is pushed whether or not audio was requested
AudioArgs_Always(o, in, tables, a) ==
    a \o (IF o.audio /\ in.hasAudio
          THEN GetAll(o.flags, in.audio, <<"f">>, "audio_")
               \o GetAll(o.flags, in.audio, <<"i">>, "audio_")
          ELSE << >>)
      \o GetAll(o.flags, tables.audio, Keys(tables.audio), Undefined)

\* lines 129-139
AudioArgs(o, in, tables, a) ==
    IF o.audio
    THEN a \o (IF in.hasAudio
               THEN GetAll(o.flags, in.audio, <<"f">>, "audio_")
                    \o GetAll(o.flags, in.audio, <<"i">>, "audio_")
               ELSE << >>)
           \o GetAll(o.flags, tables.audio, Keys(tables.audio), Undefined)
    ELSE a

\* lines 141-144
Vf(o, in) ==
    LET crop == "crop=" \o ToString(o.bounds.width) \o ":" \o ToString(o.bounds.height)
                \o ":" \o ToString(o.bounds.x) \o ":" \o ToString(o.bounds.y)
    IN  IF in.hasResolution
        THEN "scale=" \o ToString(in.resolution.w) \o ":" \o ToString(in.resolution.h)
             \o ":flags=lanczos," \o crop
        ELSE crop

\* lines 145-148
VideoArgs(o, in, tables, a) ==
    a \o GetAll(o.flags, tables.video, Keys(tables.video), Undefined)
      \o << "-vf", "'" \o Vf(o, in) \o "'" >>

\* the array passed to Util.processToPromise at line 150: [...args, opts.file]
LaunchArgs(o, in, tables) ==
    VideoArgs(o, in, tables,
        AudioArgs(o, in, tables,
            DurationArgs(o, BaseArgs(o, in, tables))))
    \o << o.file >>

----------------------------------------------------------------------------
(* getMacInputDevices, lines 39-65 *)

\* A line of the device listing, "[<index>] <name>", is a record
\* [index |-> n, name |-> the words of the name].  The two regular expressions
\* are matched line by line: \[(\d+)\]\s+ is the index, the rest is the name.
DeviceNames ==
    { <<"Capture", "screen", "0">>, <<"MacBook", "Pro", "Microphone">>,
      <<"FaceTime", "HD", "Camera">>, <<"USB", "Microphone">> }
DeviceIndexes == {0, 1}
DeviceLines == [index : DeviceIndexes, name : DeviceNames]

\* the /i flag: a word in lower case
Lower(w) ==
    CASE w = "Capture" -> "capture"
      [] w = "Microphone" -> "microphone"
      [] w = "MacBook" -> "macbook"
      [] w = "FaceTime" -> "facetime"
      [] w = "HD" -> "hd"
      [] w = "Pro" -> "pro"
      [] w = "USB" -> "usb"
      [] w = "Camera" -> "camera"
      [] OTHER -> w

\* /\[(\d+)\]\s+Capture\s+Screen/i on one line
MatchesCaptureScreen(line) ==
    /\ Len(line.name) >= 2
    /\ Lower(line.name[1]) = "capture"
    /\ Lower(line.name[2]) = "screen"

\* /\[(\d+)\]\s+Mac[^\n]*Microphone/i on one line: the name starts with Mac and
\* Microphone follows on the same line
MatchesMacMicrophone(line) ==
    /\ Len(line.name) >= 1
    /\ Lower(line.name[1]) \in {"mac", "macbook"}
    /\ \E j \in 1..Len(line.name) : Lower(line.name[j]) = "microphone"

ScreenRe == "Capture Screen"
MicrophoneRe == "Mac Microphone"

Matches(re, line) ==
    IF re = ScreenRe THEN MatchesCaptureScreen(line) ELSE MatchesMacMicrophone(line)

\* text.match(re): the position of the leftmost matching line, 0 for null
RECURSIVE MatchFrom(_, _, _)
MatchFrom(txt, re, i) ==
    IF i > Len(txt) THEN 0
    ELSE IF Matches(re, txt[i]) THEN i
    ELSE MatchFrom(txt, re, i + 1)

Match(txt, re) == MatchFrom(txt, re, 1)

\* mutant: a failed listing process fails the call (no try/catch around finish)
GetMacInputDevices_ExitChecked(o, txt, status) ==
    LET matchedIndex == Match(txt, ScreenRe)
        matchedAudioIndex == Match(txt, MicrophoneRe)
    IN  IF status # "ok"
        THEN [ok |-> FALSE, value |-> "", error |-> "process failed: ffmpeg"]
        ELSE IF matchedIndex = 0
        THEN [ok |-> FALSE, value |-> "", error |-> "Cannot find screen recording device"]
        ELSE IF ~o.audio
        THEN [ok |-> TRUE, error |-> "none",
              value |-> "'" \o ToString(txt[matchedIndex].index) \o ":none'"]
        ELSE IF matchedAudioIndex = 0
        THEN [ok |-> FALSE, value |-> "", error |-> "Cannot find microphone recording device"]
        ELSE [ok |-> TRUE, error |-> "none",
              value |-> "'" \o ToString(txt[matchedIndex].index) \o ":"
                        \o ToString(txt[matchedAudioIndex].index) \o "'"]

\* what getMacInputDevices returns or throws once the listing process has
\* exited with `status` and its stderr text is `txt` (lines 44-64)
GetMacInputDevices(o, txt, status) ==
    LET matchedIndex == Match(txt, ScreenRe)
        matchedAudioIndex == Match(txt, MicrophoneRe)
    IN  IF matchedIndex = 0
        THEN [ok |-> FALSE, value |-> "", error |-> "Cannot find screen recording device"]
        ELSE IF ~o.audio
        THEN [ok |-> TRUE, error |-> "none",
              value |-> "'" \o ToString(txt[matchedIndex].index) \o ":none'"]
        ELSE IF matchedAudioIndex = 0
        THEN [ok |-> FALSE, value |-> "", error |-> "Cannot find microphone recording device"]
        ELSE [ok |-> TRUE, error |-> "none",
              value |-> "'" \o ToString(txt[matchedIndex].index) \o ":"
                        \o ToString(txt[matchedAudioIndex].index) \o "'"]

----------------------------------------------------------------------------
(* getInputDevices, lines 67-105 *)

NoResolution == [w |-> 0, h |-> 0]

\* the switch matched no case: the function returns undefined
UndefinedInput ==
    [defined |-> FALSE, hasResolution |-> FALSE, resolution |-> NoResolution,
     video |-> NoObject, hasAudio |-> FALSE, audio |-> NoObject]

\* lines 78-84
DarwinInput(res, selector) ==
    [defined |-> TRUE, hasResolution |-> TRUE, resolution |-> res,
     video |-> << <<"f", "avfoundation">>, <<"i", selector>> >>,
     hasAudio |-> FALSE, audio |-> NoObject]

\* lines 86-95
Win32Input(o) ==
    [defined |-> TRUE, hasResolution |-> FALSE, resolution |-> NoResolution,
     video |-> << <<"f", "dshow">>,
                  <<"i", IF o.audio
                         THEN "video=\"UScreenCapture\":audio=\"Microphone\""
                         ELSE "video=\"screen-capture-recorder\"">> >>,
     hasAudio |-> FALSE, audio |-> NoObject]

\* lines 96-103
LinuxInput(o) ==
    [defined |-> TRUE, hasResolution |-> FALSE, resolution |-> NoResolution,
     video |-> << <<"f", "x11grab">>, <<"i", ":0.0">> >>,
     hasAudio |-> o.audio,
     audio |-> IF o.audio THEN << <<"f", "pulse">>, <<"i", "default">> >> ELSE NoObject]

Platforms == {"darwin", "win32", "linux", "freebsd"}

\* what the stdout listener of the geometry query can receive: the four
\* fields of "x, y, w, h" after split(/\s*,\s*/) and parseInt
GeometryOutputs == { <<0, 0, 1440, 900>> }

Spawn(p) ==
    /\ alive' = alive \cup {p}
    /\ spawnLog' = Append(spawnLog, p)

\* getInputDevices up to its first await: line 68, and for darwin line 70
GetInputDevices ==
    /\ pc = "start"
    /\ CASE platform = "darwin" ->
              /\ Spawn("osascript")
              /\ pc' = "awaitGeometry"
              /\ UNCHANGED input
         [] platform = "win32" ->
              /\ input' = Win32Input(opts)
              /\ pc' = "resolved"
              /\ UNCHANGED <<alive, spawnLog>>
         [] platform = "linux" ->
              /\ input' = LinuxInput(opts)
              /\ pc' = "resolved"
              /\ UNCHANGED <<alive, spawnLog>>
         [] OTHER ->
              /\ input' = UndefinedInput
              /\ pc' = "resolved"
              /\ UNCHANGED <<alive, spawnLog>>
    /\ UNCHANGED <<recordingArgs, platform, opts, resolution, text, listExit, args, error>>

\* the stdout 'data' listener, lines 72-76
GeometryData(v) ==
    /\ pc = "awaitGeometry"
    /\ "osascript" \in alive
    /\ resolution' = [w |-> v[3], h |-> v[4]]
    /\ UNCHANGED <<recordingArgs, platform, opts, pc, input, text, listExit, args,
                   alive, spawnLog, error>>

\* mutant: the listing process is started without awaiting the geometry query
GeometryExit_NotAwaited(ok) ==
    /\ pc = "awaitGeometry"
    /\ alive' = alive \cup {"listDevices"}
    /\ spawnLog' = Append(spawnLog, "listDevices")
    /\ pc' = "awaitListing"
    /\ UNCHANGED error
    /\ UNCHANGED <<recordingArgs, platform, opts, input, resolution, text, listExit, args>>

\* the geometry query exits: `await finish` at line 77 resolves or rejects; on
\* success getMacInputDevices starts and spawns the listing process (line 40)
GeometryExit(ok) ==
    /\ pc = "awaitGeometry"
    /\ IF ok
       THEN /\ alive' = (alive \ {"osascript"}) \cup {"listDevices"}
            /\ spawnLog' = Append(spawnLog, "listDevices")
            /\ pc' = "awaitListing"
            /\ UNCHANGED error
       ELSE /\ alive' = alive \ {"osascript"}
            /\ pc' = "failed"
            /\ error' = "process failed: osascript"
            /\ UNCHANGED spawnLog
    /\ UNCHANGED <<recordingArgs, platform, opts, input, resolution, text, listExit, args>>

\* the stderr 'data' listener of getMacInputDevices, line 43
ListingData(line) ==
    /\ pc = "awaitListing"
    /\ "listDevices" \in alive
    /\ Len(text) < MaxLines
    /\ text' = Append(text, line)
    /\ UNCHANGED <<recordingArgs, platform, opts, pc, input, resolution, listExit, args,
                   alive, spawnLog, error>>

\* the listing process exits with `status`: lines 44-64, then lines 78-84
ListingExit(status) ==
    /\ pc = "awaitListing"
    /\ alive' = alive \ {"listDevices"}
    /\ listExit' = status
    /\ LET r == GetMacInputDevices(opts, text, status)
       IN  IF r.ok
           THEN /\ input' = DarwinInput(resolution, r.value)
                /\ pc' = "resolved"
                /\ UNCHANGED error
           ELSE /\ pc' = "failed"
                /\ error' = r.error
                /\ UNCHANGED input
    /\ UNCHANGED <<recordingArgs, platform, opts, resolution, text, args, spawnLog>>

----------------------------------------------------------------------------
(* launchProcess, lines 107-152 *)

\* launchProcess after `await this.getInputDevices(opts)`: lines 111-151
LaunchProcess ==
    /\ pc = "resolved"
    /\ IF ~input.defined
       THEN /\ pc' = "failed"
            /\ error' = "Unsupported platform"
            /\ UNCHANGED <<args, alive, spawnLog>>
       ELSE /\ args' = LaunchArgs(opts, input, recordingArgs)
            /\ Spawn("record")
            /\ pc' = "recording"
            /\ UNCHANGED error
    /\ UNCHANGED <<recordingArgs, platform, opts, input, resolution, text, listExit>>

\* the recording process exits: the returned finish resolves with opts or rejects
RecordingExit(ok) ==
    /\ pc = "recording"
    /\ alive' = alive \ {"record"}
    /\ pc' = IF ok THEN "finished" ELSE "failed"
    /\ error' = IF ok THEN "none" ELSE "process failed: ffmpeg"
    /\ UNCHANGED <<recordingArgs, platform, opts, input, resolution, text, listExit,
                   args, spawnLog>>

----------------------------------------------------------------------------
(* The launchProcess call: from the call to the exit of the recording *)

Bounds800x600 == [x |-> 0, y |-> 0, width |-> 800, height |-> 600]

\* the recording intents of the launch specification: no flag overrides
LaunchOpts ==
    { [fps |-> 30, bounds |-> Bounds800x600, duration |-> d, audio |-> a,
       file |-> "out.mp4", ffmpegBinary |-> "ffmpeg", flags |-> NoObject] :
      d \in {0, 10}, a \in BOOLEAN }

GifIdle ==
    /\ gpc = [c \in 1..NumCalls |-> "idle"]
    /\ ffmpeg = [c \in 1..NumCalls |-> Undefined]
    /\ stage1 = [c \in 1..NumCalls |-> "none"]
    /\ stage2 = [c \in 1..NumCalls |-> "none"]
    /\ gifSpawns = << >>
    /\ paletteFile = << >>
    /\ paletteRead = [c \in 1..NumCalls |-> 0]
    /\ result = [c \in 1..NumCalls |-> Undefined]

PathIdle ==
    /\ file = << >>
    /\ final = << >>
    /\ ppc = "idle"

LaunchIdle ==
    /\ recordingArgs = RecordingArgsTable
    /\ platform = "linux"
    /\ opts \in {o \in LaunchOpts : o.duration = 0 /\ ~o.audio}
    /\ pc = "idle"
    /\ input = UndefinedInput
    /\ resolution = NoResolution
    /\ text = << >>
    /\ listExit = "none"
    /\ args = << >>
    /\ alive = {}
    /\ spawnLog = << >>
    /\ error = "none"

LaunchInit ==
    /\ recordingArgs = RecordingArgsTable
    /\ platform \in Platforms
    /\ opts \in LaunchOpts
    /\ pc = "start"
    /\ input = UndefinedInput
    /\ resolution = NoResolution
    /\ text = << >>
    /\ listExit = "none"
    /\ args = << >>
    /\ alive = {}
    /\ spawnLog = << >>
    /\ error = "none"
    /\ GifIdle
    /\ PathIdle

LaunchNext ==
    \/ GetInputDevices /\ UNCHANGED <<gifVars, pathVars>>
    \/ \E v \in GeometryOutputs : GeometryData(v) /\ UNCHANGED <<gifVars, pathVars>>
    \/ \E ok \in BOOLEAN : GeometryExit(ok) /\ UNCHANGED <<gifVars, pathVars>>
    \/ \E line \in DeviceLines : ListingData(line) /\ UNCHANGED <<gifVars, pathVars>>
    \/ \E status \in {"ok", "failed"} : ListingExit(status) /\ UNCHANGED <<gifVars, pathVars>>
    \/ LaunchProcess /\ UNCHANGED <<gifVars, pathVars>>
    \/ \E ok \in BOOLEAN : RecordingExit(ok) /\ UNCHANGED <<gifVars, pathVars>>

SpecLaunch == LaunchInit /\ [][LaunchNext]_vars

----------------------------------------------------------------------------
(* The argument list as a function of the intent, the overrides and the     *)
(* resolved input: launchProcess from the point where getInputDevices has   *)
(* resolved, for every flag-override object of at most MaxOverrides keys    *)

\* the keys get() can look up in opts.flags
OverrideKeys ==
    << "threads", "capture_cursor", "b:a", "c:a", "ac", "vbr", "preset", "crf", "c:v",
       "f", "i", "audio_f", "audio_i" >>

OverrideValues == { Num(0), "", False, "custom" }

RECURSIVE FlagsFrom(_, _)
\* the property lists over the keys i.. of OverrideKeys that set at most n keys
FlagsFrom(i, n) ==
    IF i > Len(OverrideKeys) \/ n = 0 THEN { << >> }
    ELSE FlagsFrom(i + 1, n)
         \cup { << <<OverrideKeys[i], v>> >> \o rest :
                v \in OverrideValues, rest \in FlagsFrom(i + 1, n - 1) }

ArgsOpts ==
    { [fps |-> 30, bounds |-> Bounds800x600, duration |-> d, audio |-> a,
       file |-> "out.mp4", ffmpegBinary |-> "ffmpeg", flags |-> fl] :
      d \in {0, 10}, a \in BOOLEAN, fl \in FlagsFrom(1, MaxOverrides) }

\* a device listing with a screen and a microphone
SampleText ==
    << [index |-> 0, name |-> <<"FaceTime", "HD", "Camera">>],
       [index |-> 1, name |-> <<"Capture", "screen", "0">>],
       [index |-> 0, name |-> <<"MacBook", "Pro", "Microphone">>] >>

SampleResolution == [w |-> 1440, h |-> 900]

ArgsInit ==
    /\ recordingArgs = RecordingArgsTable
    /\ platform \in {"darwin", "win32", "linux"}
    /\ opts \in ArgsOpts
    /\ pc = "resolved"
    /\ resolution = IF platform = "darwin" THEN SampleResolution ELSE NoResolution
    /\ text = IF platform = "darwin" THEN SampleText ELSE << >>
    /\ listExit = IF platform = "darwin" THEN "failed" ELSE "none"
    /\ input = CASE platform = "darwin" ->
                      DarwinInput(resolution, GetMacInputDevices(opts, text, listExit).value)
                 [] platform = "win32" -> Win32Input(opts)
                 [] OTHER -> LinuxInput(opts)
    /\ args = << >>
    /\ alive = {}
    /\ spawnLog = IF platform = "darwin" THEN <<"osascript", "listDevices">> ELSE << >>
    /\ error = "none"
    /\ GifIdle
    /\ PathIdle

ArgsNext ==
    \/ LaunchProcess /\ UNCHANGED <<gifVars, pathVars>>
    \/ \E ok \in BOOLEAN : RecordingExit(ok) /\ UNCHANGED <<gifVars, pathVars>>

SpecArgs == ArgsInit /\ [][ArgsNext]_vars

----------------------------------------------------------------------------
(* generateGIF, lines 154-189 *)

\* A path is a sequence of characters, so that String.replace can be computed.
Mp4 == <<".", "m", "p", "4">>
Gif == <<".", "g", "i", "f">>

RECURSIVE Join(_)
\* the JS string of a sequence of characters
Join(chars) == IF chars = << >> THEN "" ELSE Head(chars) \o Join(Tail(chars))

RECURSIVE IndexOfFrom(_, _, _)
IndexOfFrom(s, pat, i) ==
    IF i + Len(pat) - 1 > Len(s) THEN 0
    ELSE IF SubSeq(s, i, i + Len(pat) - 1) = pat THEN i
    ELSE IndexOfFrom(s, pat, i + 1)

\* s.replace(pat, by) with a string pattern: the first occurrence only
Replace(s, pat, by) ==
    LET i == IndexOfFrom(s, pat, 1)
    IN  IF i = 0 THEN s
        ELSE SubSeq(s, 1, i - 1) \o by \o SubSeq(s, i + Len(pat), Len(s))

\* line 171
FinalPath(f) == Replace(f, Mp4, Gif)

\* line 170: path.resolve(os.tmpdir(), 'palette-gen.png'), the same for every call
PalettePath(c) == "/tmp/palette-gen.png"

Calls == 1..NumCalls

\* the recording each call transcodes; opts.scale is scalePct / 100, 0 when absent
GifOpts(c) ==
    [file |-> <<"r", ToString(c)>> \o Mp4, fps |-> 30, bounds |-> Bounds800x600,
     scalePct |-> IF c % 2 = 0 THEN 50 ELSE 0]

\* lines 161-168
GifVf(o) ==
    "fps=" \o ToString(o.fps)
    \o (IF o.scalePct # 0
        THEN ",scale=" \o ToString((o.bounds.width * o.scalePct) \div 100)
             \o ":" \o ToString((o.bounds.height * o.scalePct) \div 100)
        ELSE ",scale=" \o ToString(o.bounds.width) \o ":" \o ToString(o.bounds.height))
    \o ":flags=lanczos"

\* lines 173-177
Stage1Args(c) ==
    << "-i", Join(GifOpts(c).file),
       "-vf", GifVf(GifOpts(c)) \o ",palettegen=stats_mode=diff",
       "-y", PalettePath(c) >>

\* lines 181-186
Stage2Args(c) ==
    << "-i", Join(GifOpts(c).file),
       "-i", PalettePath(c),
       "-lavfi", "\"" \o GifVf(GifOpts(c))
                 \o ",paletteuse=dither=bayer:bayer_scale=5:diff_mode=rectangle\"",
       "-y", Join(FinalPath(GifOpts(c).file)) >>

\* what Config.getFFmpegBinary() can resolve to
BinaryPaths == { Undefined, "", "/usr/local/bin/ffmpeg" }

gifRest == <<launchVars, pathVars>>

\* mutant: only undefined short-circuits (ffmpeg === undefined)
GenerateGIF_UndefinedOnly(c, bin) ==
    /\ gpc[c] = "start"
    /\ ffmpeg' = [ffmpeg EXCEPT ![c] = bin]
    /\ IF bin = Undefined
       THEN /\ gpc' = [gpc EXCEPT ![c] = "returned"]
            /\ UNCHANGED <<stage1, gifSpawns>>
       ELSE /\ stage1' = [stage1 EXCEPT ![c] = "running"]
            /\ gifSpawns' = Append(gifSpawns,
                   [call |-> c, stage |-> 1, bin |-> bin, args |-> Stage1Args(c)])
            /\ gpc' = [gpc EXCEPT ![c] = "awaitPalette"]
    /\ UNCHANGED <<stage2, paletteFile, paletteRead, result>>

\* the call, with Config.getFFmpegBinary() resolving to `bin`: lines 155-177
GenerateGIF(c, bin) ==
    /\ gpc[c] = "start"
    /\ ffmpeg' = [ffmpeg EXCEPT ![c] = bin]
    /\ IF ~Truthy(bin)
       THEN /\ gpc' = [gpc EXCEPT ![c] = "returned"]
            /\ UNCHANGED <<stage1, gifSpawns>>
       ELSE /\ stage1' = [stage1 EXCEPT ![c] = "running"]
            /\ gifSpawns' = Append(gifSpawns,
                   [call |-> c, stage |-> 1, bin |-> bin, args |-> Stage1Args(c)])
            /\ gpc' = [gpc EXCEPT ![c] = "awaitPalette"]
    /\ UNCHANGED <<stage2, paletteFile, paletteRead, result>>

\* the stage-1 process writes its output file (-y <paletteFile>)
PaletteWrite(c) ==
    /\ stage1[c] = "running"
    /\ stage1' = [stage1 EXCEPT ![c] = "written"]
    /\ paletteFile' = [paletteFile EXCEPT ![PalettePath(c)] = c]
    /\ UNCHANGED <<gpc, ffmpeg, stage2, gifSpawns, paletteRead, result>>

\* mutant: a failed stage 1 is ignored and stage 2 is started all the same
PaletteExit_FailureIgnored(c, ok) ==
    /\ gpc[c] = "awaitPalette"
    /\ stage1[c] \in {"running", "written"}
    /\ ok => stage1[c] = "written"
    /\ stage1' = [stage1 EXCEPT ![c] = IF ok THEN "ok" ELSE "failed"]
    /\ stage2' = [stage2 EXCEPT ![c] = "running"]
    /\ gifSpawns' = Append(gifSpawns,
           [call |-> c, stage |-> 2, bin |-> ffmpeg[c], args |-> Stage2Args(c)])
    /\ result' = [result EXCEPT ![c] = Join(FinalPath(GifOpts(c).file))]
    /\ gpc' = [gpc EXCEPT ![c] = "returned"]
    /\ UNCHANGED <<ffmpeg, paletteFile, paletteRead>>

\* the stage-1 process exits: `await finishPalette` (line 179) resolves or
\* rejects; on success lines 181-188 spawn stage 2 and return
PaletteExit(c, ok) ==
    /\ gpc[c] = "awaitPalette"
    /\ stage1[c] \in {"running", "written"}
    /\ ok => stage1[c] = "written"
    /\ IF ok
       THEN /\ stage1' = [stage1 EXCEPT ![c] = "ok"]
            /\ stage2' = [stage2 EXCEPT ![c] = "running"]
            /\ gifSpawns' = Append(gifSpawns,
                   [call |-> c, stage |-> 2, bin |-> ffmpeg[c], args |-> Stage2Args(c)])
            /\ result' = [result EXCEPT ![c] = Join(FinalPath(GifOpts(c).file))]
            /\ gpc' = [gpc EXCEPT ![c] = "returned"]
       ELSE /\ stage1' = [stage1 EXCEPT ![c] = "failed"]
            /\ gpc' = [gpc EXCEPT ![c] = "failed"]
            /\ UNCHANGED <<stage2, gifSpawns, result>>
    /\ UNCHANGED <<ffmpeg, paletteFile, paletteRead>>

\* the stage-2 process reads its second input (-i <paletteFile>)
PaletteUse(c) ==
    /\ stage2[c] = "running"
    /\ stage2' = [stage2 EXCEPT ![c] = "read"]
    /\ paletteRead' = [paletteRead EXCEPT ![c] = paletteFile[PalettePath(c)]]
    /\ UNCHANGED <<gpc, ffmpeg, stage1, gifSpawns, paletteFile, result>>

\* the stage-2 process exits: the returned finish resolves with final or rejects
Stage2Exit(c, ok) ==
    /\ stage2[c] \in {"running", "read"}
    /\ ok => stage2[c] = "read"
    /\ stage2' = [stage2 EXCEPT ![c] = IF ok THEN "ok" ELSE "failed"]
    /\ UNCHANGED <<gpc, ffmpeg, stage1, gifSpawns, paletteFile, paletteRead, result>>

GifInit ==
    /\ gpc = [c \in Calls |-> "start"]
    /\ ffmpeg = [c \in Calls |-> Undefined]
    /\ stage1 = [c \in Calls |-> "none"]
    /\ stage2 = [c \in Calls |-> "none"]
    /\ gifSpawns = << >>
    /\ paletteFile = [p \in {PalettePath(c) : c \in Calls} |-> 0]
    /\ paletteRead = [c \in Calls |-> 0]
    /\ result = [c \in Calls |-> Undefined]
    /\ LaunchIdle
    /\ PathIdle

GifNext ==
    \/ \E c \in Calls, bin \in BinaryPaths : GenerateGIF(c, bin) /\ UNCHANGED gifRest
    \/ \E c \in Calls : PaletteWrite(c) /\ UNCHANGED gifRest
    \/ \E c \in Calls, ok \in BOOLEAN : PaletteExit(c, ok) /\ UNCHANGED gifRest
    \/ \E c \in Calls : PaletteUse(c) /\ UNCHANGED gifRest
    \/ \E c \in Calls, ok \in BOOLEAN : Stage2Exit(c, ok) /\ UNCHANGED gifRest

SpecGif == GifInit /\ [][GifNext]_vars

----------------------------------------------------------------------------
(* The output path of generateGIF as a function of opts.file *)

PathPieces == { <<"a">>, <<"/">>, Mp4, <<".", "m", "p">> }

RECURSIVE Stems(_)
\* the concatenations of at most n pieces
Stems(n) ==
    IF n = 0 THEN { << >> }
    ELSE Stems(n - 1) \cup { s \o p : s \in Stems(n - 1), p \in PathPieces }

\* the finished recordings: every path ends in .mp4
RecordingPaths == { s \o Mp4 : s \in Stems(MaxStemPieces) }

PathInit ==
    /\ file \in RecordingPaths
    /\ final = << >>
    /\ ppc = "start"
    /\ LaunchIdle
    /\ GifIdle

\* line 171 and the value the returned finish resolves with (line 188)
DeriveFinal ==
    /\ ppc = "start"
    /\ final' = FinalPath(file)
    /\ ppc' = "done"
    /\ UNCHANGED <<file, launchVars, gifVars>>

PathNext == DeriveFinal

SpecPath == PathInit /\ [][PathNext]_vars

----------------------------------------------------------------------------
(* Properties of the argument list (SpecArgs)                               *)

Range(s) == { s[i] : i \in DOMAIN s }

\* the recording process has been spawned, so args is the list it was given
Launched == "record" \in Range(spawnLog)

\* the value an override-able flag must carry: the truthy override, else dflt
Effective(k, dflt) ==
    IF Truthy(Lookup(opts.flags, k)) THEN Lookup(opts.flags, k) ELSE dflt

\* offsets of the groups in the token list
DurLen == IF opts.duration # 0 THEN 2 ELSE 0
AudioDevLen == IF opts.audio /\ input.hasAudio THEN 4 ELSE 0
AudioGroupLen == IF opts.audio THEN 8 ELSE 0

\* C1: the token list passed to the encoder is, position by position: [-t,
\* duration] in front iff a duration was requested, the common pairs, [-r, fps],
\* [-video_size, WxH], [-f, format], [-i, selector], the audio device pairs iff
\* audio is requested and an audio descriptor was resolved, the audio group
\* iff audio is requested, the video group, [-vf, filter] and the destination
\* path as the single last token; all tokens before it pair up.
C1_TokenList ==
    Launched =>
      LET d == DurLen
          a == d + 12
          g == a + AudioDevLen
          v == g + AudioGroupLen
      IN  /\ Len(args) = v + 9
          /\ (args[1] = "-t") <=> (opts.duration # 0)
          /\ opts.duration # 0 => args[2] = ToString(opts.duration)
          /\ args[d + 1] = "-threads" /\ args[d + 2] = Effective("threads", Num(4))
          /\ args[d + 3] = "-capture_cursor"
          /\ args[d + 4] = Effective("capture_cursor", Num(1))
          /\ args[d + 5] = "-r" /\ args[d + 6] = ToString(opts.fps)
          /\ args[d + 7] = "-video_size"
          /\ args[d + 8] = ToString(opts.bounds.width) \o "x" \o ToString(opts.bounds.height)
          /\ args[d + 9] = "-f" /\ args[d + 10] = Effective("f", Lookup(input.video, "f"))
          /\ args[d + 11] = "-i" /\ args[d + 12] = Effective("i", Lookup(input.video, "i"))
          /\ (opts.audio /\ input.hasAudio) =>
                /\ args[a + 1] = "-f"
                /\ args[a + 2] = Effective("audio_f", Lookup(input.audio, "f"))
                /\ args[a + 3] = "-i"
                /\ args[a + 4] = Effective("audio_i", Lookup(input.audio, "i"))
          /\ opts.audio =>
                /\ args[g + 1] = "-b:a" /\ args[g + 2] = Effective("b:a", "384k")
                /\ args[g + 3] = "-c:a" /\ args[g + 4] = Effective("c:a", "aac")
                /\ args[g + 5] = "-ac" /\ args[g + 6] = Effective("ac", Num(1))
                /\ args[g + 7] = "-vbr" /\ args[g + 8] = Effective("vbr", Num(3))
          /\ ~opts.audio => \A i \in 1..Len(args) :
                args[i] \notin {"-b:a", "-c:a", "-ac", "-vbr"}
          /\ args[v + 1] = "-preset" /\ args[v + 2] = Effective("preset", "ultrafast")
          /\ args[v + 3] = "-crf" /\ args[v + 4] = Effective("crf", Num(22))
          /\ args[v + 5] = "-c:v" /\ args[v + 6] = Effective("c:v", "libx264")
          /\ args[v + 7] = "-vf"
          /\ args[v + 8] = "'" \o (IF input.hasResolution
                                   THEN "scale=" \o ToString(input.resolution.w) \o ":"
                                        \o ToString(input.resolution.h) \o ":flags=lanczos,"
                                   ELSE "")
                               \o "crop=" \o ToString(opts.bounds.width) \o ":"
                               \o ToString(opts.bounds.height) \o ":"
                               \o ToString(opts.bounds.x) \o ":"
                               \o ToString(opts.bounds.y) \o "'"
          /\ args[v + 9] = opts.file

\* a launch with a duration, audio and a resolved audio descriptor
C1_Witness ==
    /\ Launched
    /\ opts.duration # 0
    /\ opts.audio
    /\ input.hasAudio
    /\ Len(args) = 35

\* the flag names of the token list: the tokens at the odd positions but the last
FlagsOf(a) == [i \in 1..((Len(a) - 1) \div 2) |-> a[2 * i - 1]]

DurationFlag == IF opts.duration # 0 THEN <<"-t">> ELSE << >>
CommonFlags == <<"-threads", "-capture_cursor">>
RateGeometryVideoFlags == <<"-r", "-video_size", "-f", "-i">>
AudioFlags ==
    (IF opts.audio /\ input.hasAudio THEN <<"-f", "-i">> ELSE << >>)
    \o (IF opts.audio THEN <<"-b:a", "-c:a", "-ac", "-vbr">> ELSE << >>)
VideoFilterFlags == <<"-preset", "-crf", "-c:v", "-vf">>

\* C9 as stated: the pairs come in the order common group, duration (if any),
\* frame rate, geometry, video device, audio device and audio group (if audio
\* enabled), video group, filter-graph expression, output path.
C9_CommonBeforeDuration ==
    Launched =>
      /\ Len(args) % 2 = 1
      /\ FlagsOf(args) = CommonFlags \o DurationFlag \o RateGeometryVideoFlags
                         \o AudioFlags \o VideoFilterFlags
      /\ args[Len(args)] = opts.file

\* C9 amended: the pairs come in the order duration (if any), common group,
\* frame rate, geometry, video device, audio device (if audio is enabled and an
\* audio descriptor was resolved), audio group (if audio is enabled), video
\* group, filter-graph expression, and then the output path.
C9_DurationFirst ==
    Launched =>
      /\ Len(args) % 2 = 1
      /\ FlagsOf(args) = DurationFlag \o CommonFlags \o RateGeometryVideoFlags
                         \o AudioFlags \o VideoFilterFlags
      /\ args[Len(args)] = opts.file

\* a launch with a duration: the case where the two orders differ
C9_Witness ==
    /\ Launched
    /\ opts.duration # 0
    /\ args[1] = "-t"
    /\ args[3] = "-threads"

\* the value that follows flag f in the token list
ValueAfter(f) ==
    args[(CHOOSE i \in 1..(Len(args) - 1) : i % 2 = 1 /\ args[i] = f) + 1]

\* the groups a launch emits
EmittedGroups == IF opts.audio THEN {"common", "audio", "video"} ELSE {"common", "video"}

\* C5: for every flag name k of an emitted default group the emitted value is
\* the override under k when it is present and truthy and the table default
\* otherwise; an override of 0, "" or false leaves the default; the default
\* tables are what they were before the call.
C5_MergeRule ==
    /\ recordingArgs = RecordingArgsTable
    /\ Launched =>
         \A grp \in EmittedGroups : \A n \in 1..Len(RecordingArgsTable[grp]) :
            LET k == RecordingArgsTable[grp][n][1]
                dflt == RecordingArgsTable[grp][n][2]
                over == Lookup(opts.flags, k)
            IN  /\ \E i \in 1..(Len(args) - 1) : i % 2 = 1 /\ args[i] = "-" \o k
                /\ over \in {Undefined, Num(0), "", False} => ValueAfter("-" \o k) = dflt
                /\ over \notin {Undefined, Num(0), "", False} => ValueAfter("-" \o k) = over

\* a launch where one table key carries a falsy override and another a truthy one
C5_Witness ==
    /\ Launched
    /\ Lookup(opts.flags, "crf") = Num(0)
    /\ Lookup(opts.flags, "preset") = "custom"
    /\ ValueAfter("-crf") = Num(22)
    /\ ValueAfter("-preset") = "custom"

\* C8 as stated: the audio device's format and selector are emitted under
\* audio-prefixed flag names, different from the video device's -f and -i.
C8_AudioPrefixedFlags ==
    (Launched /\ opts.audio /\ input.hasAudio) =>
      /\ args[DurLen + 13] = "-audio_f"
      /\ args[DurLen + 15] = "-audio_i"

\* C8 amended: the audio device's format and selector are emitted right after
\* the video device's pairs under the same flag names -f and -i; the audio_
\* prefix names only the override keys (audio_f, audio_i) whose truthy value
\* replaces the resolved one, and no emitted flag is audio-prefixed.
C8_AudioDeviceFlags ==
    (Launched /\ opts.audio /\ input.hasAudio) =>
      /\ SubSeq(args, DurLen + 9, DurLen + 16) =
            << "-f", Effective("f", Lookup(input.video, "f")),
               "-i", Effective("i", Lookup(input.video, "i")),
               "-f", Effective("audio_f", Lookup(input.audio, "f")),
               "-i", Effective("audio_i", Lookup(input.audio, "i")) >>
      /\ \A i \in 1..Len(args) : args[i] \notin {"-audio_f", "-audio_i"}

\* a launch with an audio descriptor and an override under audio_f
C8_Witness ==
    /\ Launched
    /\ opts.audio
    /\ input.hasAudio
    /\ Lookup(opts.flags, "audio_f") = "custom"
    /\ args[DurLen + 13] = "-f"
    /\ args[DurLen + 14] = "custom"

----------------------------------------------------------------------------
(* Properties of device discovery and of the launch (SpecLaunch)            *)

\* the listing process has exited, so getMacInputDevices has returned or thrown
Listed == listExit # "none"

HasScreenEntry == \E i \in 1..Len(text) : MatchesCaptureScreen(text[i])
HasMicrophoneEntry == \E i \in 1..Len(text) : MatchesMacMicrophone(text[i])

\* the index printed on the first Capture Screen line of the text
VideoIndex ==
    text[CHOOSE i \in 1..Len(text) :
            /\ MatchesCaptureScreen(text[i])
            /\ \A j \in 1..(i - 1) : ~MatchesCaptureScreen(text[j])].index

\* the index printed on the first Mac ... Microphone line of the text
AudioIndex ==
    text[CHOOSE i \in 1..Len(text) :
            /\ MatchesMacMicrophone(text[i])
            /\ \A j \in 1..(i - 1) : ~MatchesMacMicrophone(text[j])].index

\* C7: on darwin the selector is decided by the captured text and the audio
\* flag alone, whatever the exit status of the listing process: without audio
\* it is '<videoIndex>:none' exactly when the text has a Capture Screen entry;
\* with audio it is '<videoIndex>:<audioIndex>' exactly when the text has both
\* a Capture Screen and a microphone entry; no screen entry raises the screen
\* error, and a screen entry without a microphone entry the microphone error.
C7_MacSelector ==
    Listed =>
      /\ input.defined <=> (HasScreenEntry /\ (opts.audio => HasMicrophoneEntry))
      /\ (input.defined /\ ~opts.audio) =>
            Lookup(input.video, "i") = "'" \o ToString(VideoIndex) \o ":none'"
      /\ (input.defined /\ opts.audio) =>
            Lookup(input.video, "i") =
               "'" \o ToString(VideoIndex) \o ":" \o ToString(AudioIndex) \o "'"
      /\ ~HasScreenEntry =>
            pc = "failed" /\ error = "Cannot find screen recording device"
      /\ (HasScreenEntry /\ opts.audio /\ ~HasMicrophoneEntry) =>
            pc = "failed" /\ error = "Cannot find microphone recording device"

\* the listing process failed, audio is off, the text has a screen entry and no
\* microphone entry: the selector is resolved all the same
C7_Witness ==
    /\ listExit = "failed"
    /\ ~opts.audio
    /\ HasScreenEntry
    /\ ~HasMicrophoneEntry
    /\ input.defined
    /\ Lookup(input.video, "i") = "'1:none'"

\* the processes a call may spawn on each platform, in order
SpawnOrder ==
    CASE platform = "darwin" -> <<"osascript", "listDevices", "record">>
      [] platform \in {"win32", "linux"} -> <<"record">>
      [] OTHER -> << >>

ResolutionErrors ==
    { "Unsupported platform", "process failed: osascript",
      "Cannot find screen recording device", "Cannot find microphone recording device" }

\* C10: the recording process is spawned only after device resolution has
\* succeeded, with the geometry query and the device listing (in that order)
\* already exited, so at most one process of the call is alive; when
\* resolution fails the call fails, no process is spawned a second time and
\* the recording process is never spawned.
C10_LaunchAfterResolution ==
    /\ Cardinality(alive) <= 1
    /\ Len(spawnLog) <= Len(SpawnOrder)
    /\ spawnLog = SubSeq(SpawnOrder, 1, Len(spawnLog))
    /\ alive \subseteq (IF spawnLog = << >> THEN {} ELSE {spawnLog[Len(spawnLog)]})
    /\ Launched => input.defined /\ error \notin ResolutionErrors
    /\ (Launched /\ platform = "darwin") => Listed
    /\ error \in ResolutionErrors => pc = "failed" /\ ~Launched /\ alive = {}
    /\ (platform \notin {"darwin", "win32", "linux"} /\ pc \notin {"start", "resolved"}) =>
          error = "Unsupported platform"

\* a darwin launch: both discovery processes have come and gone and the
\* recording process alone is alive
C10_Witness ==
    /\ platform = "darwin"
    /\ pc = "recording"
    /\ spawnLog = <<"osascript", "listDevices", "record">>
    /\ alive = {"record"}

----------------------------------------------------------------------------
(* Properties of generateGIF (SpecGif, SpecPath)                            *)

Stage1Alive(c) == stage1[c] \in {"running", "written"}
Stage2Alive(c) == stage2[c] \in {"running", "read"}

SpawnsOf(c, n) == { i \in 1..Len(gifSpawns) : gifSpawns[i].call = c /\ gifSpawns[i].stage = n }

\* C2: in one generateGIF call stage 2 is spawned only after stage 1 has
\* completed successfully, the two processes are never alive together, and a
\* failed stage 1 fails the call without stage 2 ever being spawned.
C2_StagesInSequence ==
    \A c \in Calls :
      /\ SpawnsOf(c, 2) # {} => stage1[c] = "ok"
      /\ stage2[c] # "none" => stage1[c] = "ok"
      /\ \A i \in SpawnsOf(c, 2) : \E j \in SpawnsOf(c, 1) : j < i
      /\ ~(Stage1Alive(c) /\ Stage2Alive(c))
      /\ stage1[c] = "failed" =>
            gpc[c] = "failed" /\ stage2[c] = "none" /\ SpawnsOf(c, 2) = {}
      /\ Cardinality(SpawnsOf(c, 1)) <= 1 /\ Cardinality(SpawnsOf(c, 2)) <= 1

\* one call has reached stage 2 and another has failed in stage 1
C2_Witness ==
    \E c, d \in Calls :
      /\ stage1[c] = "ok" /\ stage2[c] = "running"
      /\ stage1[d] = "failed" /\ gpc[d] = "failed"

\* C3 as stated: under every interleaving of concurrent calls the palette
\* image a call's stage 2 reads is the one that call's stage 1 wrote.
C3_OwnPalette ==
    \A c \in Calls : stage2[c] \in {"read", "ok", "failed"} /\ paletteRead[c] # 0
                        => paletteRead[c] = c

\* C4: when the binary path resolves to nothing the call returns no result,
\* raises no error and spawns no process; every process that is spawned was
\* given the non-empty path the configuration resolved.
C4_NoBinaryNoProcess ==
    /\ \A c \in Calls :
         (gpc[c] # "start" /\ ffmpeg[c] \in {Undefined, ""}) =>
            /\ gpc[c] = "returned"
            /\ result[c] = Undefined
            /\ stage1[c] = "none" /\ stage2[c] = "none"
            /\ \A i \in 1..Len(gifSpawns) : gifSpawns[i].call # c
    /\ \A i \in 1..Len(gifSpawns) :
         /\ gifSpawns[i].bin \notin {Undefined, ""}
         /\ gifSpawns[i].bin = ffmpeg[gifSpawns[i].call]

\* one call got the empty path and returned nothing while another one spawned
C4_Witness ==
    \E c, d \in Calls :
      /\ ffmpeg[c] = "" /\ gpc[c] = "returned" /\ result[c] = Undefined
      /\ SpawnsOf(d, 1) # {}

\* C6 as stated: for a path P that ends in .mp4 the output path is P with that
\* trailing suffix replaced by .gif and every other character unchanged.
C6_SuffixReplaced ==
    ppc = "done" => final = SubSeq(file, 1, Len(file) - Len(Mp4)) \o Gif

====
